---- MODULE Spec2Model ----
(***************************************************************************)
(* Issue-tracker REST backend (gskll/tracker-backend).                     *)
(*                                                                         *)
(* The state is the relational store (tables users, issues, comments, the  *)
(* primary-key sequences of the three tables), the wall clock read by      *)
(* datetime.now(), the last response sent and the number of requests      *)
(* served so far.  Every route handler of                                  *)
(* src/api/__init__.py is an operator from (store, request) to             *)
(* (status, store), and one action per route applies it.                   *)
(*                                                                         *)
(* Persistence follows src/api/models.py: insert/update/delete are a       *)
(* session.add/delete followed by commit; a commit that violates a column  *)
(* or foreign-key constraint raises, the handler answers 422 and the       *)
(* request's session is discarded, so the tables stay as they were.        *)
(* Column types are abstracted: ids are positive integers on both sides of *)
(* every foreign key.  Columns no handler branches on (nickname, name,     *)
(* User.created_at) are left out; email stands for the NOT NULL profile    *)
(* columns of User.                                                        *)
(***************************************************************************)
EXTENDS Integers, FiniteSets, Sequences, TLC

VARIABLES users, issues, comments, seq, now, resp, served, inflight

vars == <<users, issues, comments, seq, now, resp, served, inflight>>

----------------------------------------------------------------------------
(* Bounds of the model *)

MaxUserId == 2
MaxIssueId == 2
MaxCommentId == 2
MaxTime == 2
MaxRequests == 4
MaxClients == 2

----------------------------------------------------------------------------
(* JSON / SQL values *)

Absent == "<absent>"       \* the key is not in the JSON body
Null == "<null>"           \* JSON null, Python None, SQL NULL
Empty == ""                \* an empty string / list / dict: falsy in Python
JTrue == "true"
JFalse == "false"
NoId == -1                 \* an id key that is not in the body (dict.get gives None)
EmptyId == 0               \* an id key that is present but falsy
NullTime == 0              \* a DateTime column holding NULL

Titles == {"A", "B"}
AuthIds == {"auth0|a", "auth0|b"}
RoleLists == {"[Admin]", "[Commenter]"}
Times == 1..MaxTime

AcceptedHost == "localhost:5000"
OtherHost == "evil.example"
Hosts == {AcceptedHost, OtherHost}

\* dict.get(key): None when the key is missing
Get(v) == IF v = Absent THEN Null ELSE v

\* `not field` for a string-like JSON value that is present
Falsy(v) == v \in {Null, Empty, JFalse}

----------------------------------------------------------------------------
(* The store *)

Store == [users |-> users, issues |-> issues, comments |-> comments,
          seq |-> seq, now |-> now]

Ids(rows) == {r.id : r \in rows}

Row(rows, id) == CHOOSE r \in rows : r.id = id

----------------------------------------------------------------------------
(* Responses *)

\* the default description werkzeug gives the HTTP error `code`
Description(code) ==
    CASE code = 400 -> "Bad Request"
      [] code = 401 -> "Unauthorized"
      [] code = 403 -> "Forbidden"
      [] code = 404 -> "Not Found"
      [] code = 405 -> "Method Not Allowed"
      [] code = 422 -> "Unprocessable Entity"
      [] OTHER -> "Internal Server Error"

\* error_handler answering success true and the code
error_handler_SuccessTrue(code) ==
    [success |-> TRUE, error |-> code, message |-> Description(code)]

\* error_handler: the JSON envelope of abort(code)
error_handler(code) ==
    [success |-> FALSE, error |-> code, message |-> Description(code)]

\* the codes error_handler is registered for; any other failure (an uncaught
\* exception) is answered by the framework's own page, which is no envelope
HandledCodes == {400, 401, 403, 404, 405, 422}

ServerErrorPage == [page |-> "500 Internal Server Error"]

\* abort(status): the store is as the request found it, or as the failed
\* commit left it
Reply(status, s) ==
    [status |-> status, store |-> s,
     body |-> IF status \in HandledCodes THEN error_handler(status)
              ELSE ServerErrorPage]

\* return jsonify(data): status 200
Ok(s, data) == [status |-> 200, store |-> s, body |-> data]

\* the issues listed from the highest id down
IssuesById_Descending(s) ==
    [k \in 1..Cardinality(s.issues) |->
        CHOOSE i \in s.issues : Cardinality({j \in s.issues : j.id > i.id}) = k - 1]

\* Issue.query.order_by(Issue.id).all()
IssuesById(s) ==
    [k \in 1..Cardinality(s.issues) |->
        CHOOSE i \in s.issues : Cardinality({j \in s.issues : j.id < i.id}) = k - 1]

\* datetime.strftime("%m/%d/%Y, %H:%M:%S") of a stored time, None kept as None
FormatTime(t) ==
    IF t = NullTime THEN Null ELSE "01/01/2021, 00:00:0" \o ToString(t)

\* User.format_short()
UserFormatShort(user) == [id |-> user.id, roles |-> user.roles]

\* Comment.format()
CommentFormat(comment) ==
    [id |-> comment.id,
     text |-> comment.text,
     created_at |-> FormatTime(comment.created_at),
     last_modified |-> FormatTime(comment.last_modified),
     user_id |-> comment.user_id,
     issue_id |-> comment.issue_id]

\* Issue.format_no_comments(); self.user is the row user_id refers to
format_no_comments(s, issue) ==
    [id |-> issue.id,
     title |-> issue.title,
     open |-> issue.open,
     text |-> issue.text,
     created_at |-> FormatTime(issue.created_at),
     closed_at |-> FormatTime(issue.closed_at),
     last_modified |-> FormatTime(issue.last_modified),
     user |-> UserFormatShort(Row(s.users, issue.user_id))]

\* format_with_comments listing every stored comment
format_with_comments_AllComments(s, issue) ==
    [id |-> issue.id,
     title |-> issue.title,
     open |-> issue.open,
     text |-> issue.text,
     created_at |-> FormatTime(issue.created_at),
     closed_at |-> FormatTime(issue.closed_at),
     last_modified |-> FormatTime(issue.last_modified),
     user |-> UserFormatShort(Row(s.users, issue.user_id)),
     comments |-> [cid \in Ids(s.comments) |-> CommentFormat(Row(s.comments, cid))]]

\* Issue.format_with_comments(); self.comments is the backref of Comment.issue
format_with_comments(s, issue) ==
    [id |-> issue.id,
     title |-> issue.title,
     open |-> issue.open,
     text |-> issue.text,
     created_at |-> FormatTime(issue.created_at),
     closed_at |-> FormatTime(issue.closed_at),
     last_modified |-> FormatTime(issue.last_modified),
     user |-> UserFormatShort(Row(s.users, issue.user_id)),
     comments |-> [cid \in Ids({c \in s.comments : c.issue_id = issue.id}) |->
                      CommentFormat(Row(s.comments, cid))]]

----------------------------------------------------------------------------
(* Authorization *)

Permissions == {"get:issue", "post:issues", "patch:issues", "delete:issues",
                "post:comments", "patch:comments", "delete:comments"}

NoPermission == "<public>"

NoToken == "<no token>"
Tokens == {NoToken, "guest", "commenter", "admin"}

\* the permissions claim of the verified tokens used as inputs: the admin
\* and commenter roles of the test suite, and a token with no permission
TokenPermissions(token) ==
    CASE token = "admin" -> Permissions
      [] token = "commenter" -> {"post:comments", "patch:comments", "delete:comments"}
      [] OTHER -> {}

Routes == {"POST /users", "PATCH /users", "GET /issues", "GET /issues/:id",
           "POST /issues", "POST /comments", "PATCH /issues/:id",
           "PATCH /comments/:id", "DELETE /issues/:id", "DELETE /comments/:id"}

\* GET /issues/<id> left public, as the comment above the route says
RequiredPermission_GetIssuePublic(route) ==
    CASE route = "POST /issues" -> "post:issues"
      [] route = "POST /comments" -> "post:comments"
      [] route = "PATCH /issues/:id" -> "patch:issues"
      [] route = "PATCH /comments/:id" -> "patch:comments"
      [] route = "DELETE /issues/:id" -> "delete:issues"
      [] route = "DELETE /comments/:id" -> "delete:comments"
      [] OTHER -> NoPermission

\* GET /issues decorated like GET /issues/<id>
RequiredPermission_ListGated(route) ==
    CASE route = "GET /issues/:id" -> "get:issue"
      [] route = "GET /issues" -> "get:issue"
      [] route = "POST /issues" -> "post:issues"
      [] route = "POST /comments" -> "post:comments"
      [] route = "PATCH /issues/:id" -> "patch:issues"
      [] route = "PATCH /comments/:id" -> "patch:comments"
      [] route = "DELETE /issues/:id" -> "delete:issues"
      [] route = "DELETE /comments/:id" -> "delete:comments"
      [] OTHER -> NoPermission

\* the @requires_auth(...) decorator of each route, or none
RequiredPermission(route) ==
    CASE route = "GET /issues/:id" -> "get:issue"
      [] route = "POST /issues" -> "post:issues"
      [] route = "POST /comments" -> "post:comments"
      [] route = "PATCH /issues/:id" -> "patch:issues"
      [] route = "PATCH /comments/:id" -> "patch:comments"
      [] route = "DELETE /issues/:id" -> "delete:issues"
      [] route = "DELETE /comments/:id" -> "delete:comments"
      [] OTHER -> NoPermission

Gated(route) == RequiredPermission(route) # NoPermission

\* requires_auth: 0 when the handler may run, else the status of the rejection
requires_auth(permission, token) ==
    IF permission = NoPermission THEN 0
    ELSE IF token = NoToken THEN 401
    ELSE IF permission \notin TokenPermissions(token) THEN 403
    ELSE 0

Authorize(route, token) == requires_auth(RequiredPermission(route), token)

----------------------------------------------------------------------------
(* Persistence layer: the tables' constraints and insert / update / delete *)

\* users: auth_id, email, created_at and last_login are NOT NULL
UserConstraintsHold(s, row) ==
    /\ row.auth_id # Null
    /\ row.email # Null
    /\ row.last_login # NullTime

\* the issues table without the UNIQUE constraint on title
IssueConstraintsHold_NoUnique(s, row) ==
    /\ row.title # Null
    /\ row.text # Null
    /\ row.user_id \in Ids(s.users)

\* issues: title NOT NULL and UNIQUE, text NOT NULL, user_id NOT NULL -> users.id
IssueConstraintsHold(s, row) ==
    /\ row.title # Null
    /\ row.text # Null
    /\ row.user_id \in Ids(s.users)
    /\ \A o \in s.issues : o.id # row.id => o.title # row.title

\* the comments table without its foreign keys
CommentConstraintsHold_NoForeignKeys(s, row) ==
    /\ row.text # Null
    /\ row.user_id # NoId
    /\ row.issue_id # NoId

\* comments: text NOT NULL, user_id NOT NULL -> users.id, issue_id NOT NULL -> issues.id
CommentConstraintsHold(s, row) ==
    /\ row.text # Null
    /\ row.user_id \in Ids(s.users)
    /\ row.issue_id \in Ids(s.issues)

\* a commit that raised: the transaction is rolled back
Failed(s) == [ok |-> FALSE, store |-> s]

Committed(s) == [ok |-> TRUE, store |-> s]

\* User.insert(): the row takes the next value of the id sequence, which is
\* used up whether or not the INSERT succeeds
UserInsert(s, row) ==
    LET new == [row EXCEPT !.id = s.seq.users]
        s1 == [s EXCEPT !.seq.users = @ + 1]
    IN IF UserConstraintsHold(s1, new)
       THEN Committed([s1 EXCEPT !.users = @ \cup {new}])
       ELSE Failed(s1)

\* User.update()
UserUpdate(s, row) ==
    IF UserConstraintsHold(s, row)
    THEN Committed([s EXCEPT !.users = (@ \ {Row(s.users, row.id)}) \cup {row}])
    ELSE Failed(s)

\* Issue.insert()
IssueInsert(s, row) ==
    LET new == [row EXCEPT !.id = s.seq.issues]
        s1 == [s EXCEPT !.seq.issues = @ + 1]
    IN IF IssueConstraintsHold(s1, new)
       THEN Committed([s1 EXCEPT !.issues = @ \cup {new}])
       ELSE Failed(s1)

\* Issue.update() whose failed commit leaves the modified row behind
IssueUpdate_KeepsDirtyRow(s, row) ==
    IF IssueConstraintsHold(s, row)
    THEN Committed([s EXCEPT !.issues = (@ \ {Row(s.issues, row.id)}) \cup {row}])
    ELSE Failed([s EXCEPT !.issues = (@ \ {Row(s.issues, row.id)}) \cup {row}])

\* Issue.update()
IssueUpdate(s, row) ==
    IF IssueConstraintsHold(s, row)
    THEN Committed([s EXCEPT !.issues = (@ \ {Row(s.issues, row.id)}) \cup {row}])
    ELSE Failed(s)

\* Comment.insert()
CommentInsert(s, row) ==
    LET new == [row EXCEPT !.id = s.seq.comments]
        s1 == [s EXCEPT !.seq.comments = @ + 1]
    IN IF CommentConstraintsHold(s1, new)
       THEN Committed([s1 EXCEPT !.comments = @ \cup {new}])
       ELSE Failed(s1)

\* Comment.update()
CommentUpdate(s, row) ==
    IF CommentConstraintsHold(s, row)
    THEN Committed([s EXCEPT !.comments = (@ \ {Row(s.comments, row.id)}) \cup {row}])
    ELSE Failed(s)

\* The rows a session.delete() marks deleted.  The delete cascade is declared
\* on the many-to-one relationships (Issue.user, Comment.user, Comment.issue),
\* so it runs from the child to its parents: a deleted comment takes its issue
\* and its user with it, a deleted issue takes its user with it.
CascadeFromIssues(s, iss) ==
    [comments |-> {}, issues |-> iss, users |-> {i.user_id : i \in iss}]

CascadeFromComments(s, cs) ==
    LET iss == {i \in s.issues : \E c \in cs : c.issue_id = i.id}
    IN [comments |-> cs, issues |-> iss,
        users |-> {c.user_id : c \in cs} \cup {i.user_id : i \in iss}]

\* a flush against tables whose foreign keys are not enforced
FlushDelete_NoOrphanCheck(s, d) ==
    Committed([s EXCEPT !.comments = @ \ d.comments,
                        !.issues = @ \ d.issues,
                        !.users = {u \in @ : u.id \notin d.users}])

\* The flush of a delete.  The backrefs User.issues, User.comments and
\* Issue.comments carry no delete cascade: the rows left behind that reference
\* a deleted parent get their foreign key set to NULL, which the NOT NULL
\* foreign-key columns refuse, and the commit raises.
FlushDelete(s, d) ==
    LET orphanComments == {c \in s.comments \ d.comments :
                              \/ c.issue_id \in Ids(d.issues)
                              \/ c.user_id \in d.users}
        orphanIssues == {i \in s.issues \ d.issues : i.user_id \in d.users}
    IN IF orphanComments = {} /\ orphanIssues = {}
       THEN Committed([s EXCEPT !.comments = @ \ d.comments,
                                !.issues = @ \ d.issues,
                                !.users = {u \in @ : u.id \notin d.users}])
       ELSE Failed(s)

\* Issue.delete()
IssueDelete(s, issue) == FlushDelete(s, CascadeFromIssues(s, {issue}))

\* Comment.delete()
CommentDelete(s, comment) == FlushDelete(s, CascadeFromComments(s, {comment}))

----------------------------------------------------------------------------
(* Request bodies *)

UserBody(user, user_id, email, created_at, roles) ==
    [user |-> user, user_id |-> user_id, email |-> email,
     created_at |-> created_at, roles |-> roles]

IssueBody(title, text, user_id) ==
    [title |-> title, text |-> text, user_id |-> user_id]

CommentBody(text, user_id, issue_id) ==
    [text |-> text, user_id |-> user_id, issue_id |-> issue_id]

IssuePatch(title, text, open) == [title |-> title, text |-> text, open |-> open]

CommentPatch(text, user_id, issue_id) ==
    [text |-> text, user_id |-> user_id, issue_id |-> issue_id]

----------------------------------------------------------------------------
(* Route handlers *)

\* add_user without the lookup of the external id before the insert
add_user_NoExistsCheck(s, token, host, body) ==
    IF Authorize("POST /users", token) # 0
    THEN Reply(Authorize("POST /users", token), s)
    ELSE IF host # AcceptedHost THEN Reply(401, s)
    ELSE IF (body.user # Absent /\ Falsy(body.user))
            \/ (body.roles # Absent /\ Falsy(body.roles)) THEN Reply(400, s)
    ELSE IF body.user = Absent THEN Reply(500, s)
    ELSE IF body.user_id = Absent \/ Falsy(body.user_id) THEN Reply(400, s)
    ELSE LET user == [id |-> 0,
                      auth_id |-> body.user_id,
                      email |-> Get(body.email),
                      last_login |-> body.created_at,
                      roles |-> Get(body.roles)]
             r == UserInsert(s, user)
         IN IF r.ok
            THEN Ok(r.store, [success |-> TRUE,
                              user |-> UserFormatShort(Row(r.store.users, s.seq.users))])
            ELSE Reply(422, r.store)

\* POST /users
add_user(s, token, host, body) ==
    IF Authorize("POST /users", token) # 0
    THEN Reply(Authorize("POST /users", token), s)
    ELSE IF host # AcceptedHost THEN Reply(401, s)
    ELSE IF (body.user # Absent /\ Falsy(body.user))
            \/ (body.roles # Absent /\ Falsy(body.roles)) THEN Reply(400, s)
    ELSE IF body.user = Absent THEN Reply(500, s)
    ELSE IF body.user_id = Absent \/ Falsy(body.user_id) THEN Reply(400, s)
    ELSE IF \E u \in s.users : u.auth_id = body.user_id THEN Reply(422, s)
    ELSE LET user == [id |-> 0,
                      auth_id |-> body.user_id,
                      email |-> Get(body.email),
                      last_login |-> body.created_at,
                      roles |-> Get(body.roles)]
             r == UserInsert(s, user)
         IN IF r.ok
            THEN Ok(r.store, [success |-> TRUE,
                              user |-> UserFormatShort(Row(r.store.users, s.seq.users))])
            ELSE Reply(422, r.store)

\* update_user without the comparison of HTTP_HOST with ACCEPTED_HOST
update_user_NoHostCheck(s, token, host, body, t) ==
    IF Authorize("PATCH /users", token) # 0
    THEN Reply(Authorize("PATCH /users", token), s)
    ELSE IF body.user = Absent \/ body.user = Null THEN Reply(422, s)
    ELSE IF ~ \E u \in s.users : u.auth_id = body.user_id THEN Reply(404, s)
    ELSE LET user == CHOOSE u \in s.users : u.auth_id = body.user_id
             u1 == IF body.user # Empty /\ body.email # Absent
                      /\ ~ Falsy(user.email) /\ user.email # body.email
                   THEN [user EXCEPT !.email = body.email] ELSE user
         IN IF Get(body.roles) = Null THEN Reply(422, s)
            ELSE LET u2 == [u1 EXCEPT !.roles = body.roles, !.last_login = t]
                     r == UserUpdate([s EXCEPT !.now = t], u2)
                 IN IF r.ok
                    THEN Ok(r.store, [success |-> TRUE, user |-> UserFormatShort(u2)])
                    ELSE Reply(422, r.store)

\* update_user that refreshes last_login and leaves the stored roles
update_user_KeepsRoles(s, token, host, body, t) ==
    IF Authorize("PATCH /users", token) # 0
    THEN Reply(Authorize("PATCH /users", token), s)
    ELSE IF host # AcceptedHost THEN Reply(401, s)
    ELSE IF body.user = Absent \/ body.user = Null THEN Reply(422, s)
    ELSE IF ~ \E u \in s.users : u.auth_id = body.user_id THEN Reply(404, s)
    ELSE LET user == CHOOSE u \in s.users : u.auth_id = body.user_id
             u1 == IF body.user # Empty /\ body.email # Absent
                      /\ ~ Falsy(user.email) /\ user.email # body.email
                   THEN [user EXCEPT !.email = body.email] ELSE user
         IN IF Get(body.roles) = Null THEN Reply(422, s)
            ELSE LET u2 == [u1 EXCEPT !.last_login = t]
                     r == UserUpdate([s EXCEPT !.now = t], u2)
                 IN IF r.ok
                    THEN Ok(r.store, [success |-> TRUE, user |-> UserFormatShort(u2)])
                    ELSE Reply(422, r.store)

\* PATCH /users
update_user(s, token, host, body, t) ==
    IF Authorize("PATCH /users", token) # 0
    THEN Reply(Authorize("PATCH /users", token), s)
    ELSE IF host # AcceptedHost THEN Reply(401, s)
    ELSE IF body.user = Absent \/ body.user = Null THEN Reply(422, s)
    ELSE IF ~ \E u \in s.users : u.auth_id = body.user_id THEN Reply(404, s)
    ELSE LET user == CHOOSE u \in s.users : u.auth_id = body.user_id
             \* for field in user_dict: overwrite a stored, truthy, different value
             u1 == IF body.user # Empty /\ body.email # Absent
                      /\ ~ Falsy(user.email) /\ user.email # body.email
                   THEN [user EXCEPT !.email = body.email] ELSE user
         IN IF Get(body.roles) = Null THEN Reply(422, s)
            ELSE LET u2 == [u1 EXCEPT !.roles = body.roles, !.last_login = t]
                     r == UserUpdate([s EXCEPT !.now = t], u2)
                 IN IF r.ok
                    THEN Ok(r.store, [success |-> TRUE, user |-> UserFormatShort(u2)])
                    ELSE Reply(422, r.store)

\* GET /issues
get_issues(s, token) ==
    IF Authorize("GET /issues", token) # 0
    THEN Reply(Authorize("GET /issues", token), s)
    ELSE Ok(s, [success |-> TRUE,
                issues |-> [k \in DOMAIN IssuesById(s) |->
                               format_no_comments(s, IssuesById(s)[k])]])

\* GET /issues/<id>
get_issue(s, token, id) ==
    IF Authorize("GET /issues/:id", token) # 0
    THEN Reply(Authorize("GET /issues/:id", token), s)
    ELSE IF id \notin Ids(s.issues) THEN Reply(404, s)
    ELSE Ok(s, [success |-> TRUE,
                issue |-> format_with_comments(s, Row(s.issues, id))])

\* post_issue answering 200 although the insert raised
post_issue_IgnoresFailure(s, token, body, t) ==
    IF Authorize("POST /issues", token) # 0
    THEN Reply(Authorize("POST /issues", token), s)
    ELSE IF \/ (body.title # Absent /\ Falsy(body.title))
            \/ (body.text # Absent /\ Falsy(body.text))
            \/ body.user_id = EmptyId THEN Reply(400, s)
    ELSE LET issue == [id |-> 0,
                       title |-> Get(body.title),
                       open |-> TRUE,
                       text |-> Get(body.text),
                       created_at |-> t,
                       closed_at |-> NullTime,
                       last_modified |-> NullTime,
                       user_id |-> body.user_id]
             r == IssueInsert([s EXCEPT !.now = t], issue)
         IN Ok(r.store, [success |-> TRUE])

\* post_issue creating the issue already closed at its creation time
post_issue_ClosedAtCreation(s, token, body, t) ==
    IF Authorize("POST /issues", token) # 0
    THEN Reply(Authorize("POST /issues", token), s)
    ELSE IF \/ (body.title # Absent /\ Falsy(body.title))
            \/ (body.text # Absent /\ Falsy(body.text))
            \/ body.user_id = EmptyId THEN Reply(400, s)
    ELSE LET issue == [id |-> 0,
                       title |-> Get(body.title),
                       open |-> TRUE,
                       text |-> Get(body.text),
                       created_at |-> t,
                       closed_at |-> t,
                       last_modified |-> NullTime,
                       user_id |-> body.user_id]
             r == IssueInsert([s EXCEPT !.now = t], issue)
         IN IF r.ok
            THEN Ok(r.store,
                    [success |-> TRUE,
                     issue |-> format_no_comments(r.store,
                                                  Row(r.store.issues, s.seq.issues))])
            ELSE Reply(422, r.store)

\* POST /issues; t is the reading of datetime.now()
post_issue(s, token, body, t) ==
    IF Authorize("POST /issues", token) # 0
    THEN Reply(Authorize("POST /issues", token), s)
    ELSE IF \/ (body.title # Absent /\ Falsy(body.title))
            \/ (body.text # Absent /\ Falsy(body.text))
            \/ body.user_id = EmptyId THEN Reply(400, s)
    ELSE LET issue == [id |-> 0,
                       title |-> Get(body.title),
                       open |-> TRUE,
                       text |-> Get(body.text),
                       created_at |-> t,
                       closed_at |-> NullTime,
                       last_modified |-> NullTime,
                       user_id |-> body.user_id]
             r == IssueInsert([s EXCEPT !.now = t], issue)
         IN IF r.ok
            THEN Ok(r.store,
                    [success |-> TRUE,
                     issue |-> format_no_comments(r.store,
                                                  Row(r.store.issues, s.seq.issues))])
            ELSE Reply(422, r.store)

\* POST /comments
post_comment(s, token, body, t) ==
    IF Authorize("POST /comments", token) # 0
    THEN Reply(Authorize("POST /comments", token), s)
    ELSE IF \/ (body.text # Absent /\ Falsy(body.text))
            \/ body.user_id = EmptyId
            \/ body.issue_id = EmptyId THEN Reply(400, s)
    ELSE LET comment == [id |-> 0,
                         text |-> Get(body.text),
                         created_at |-> t,
                         last_modified |-> NullTime,
                         user_id |-> body.user_id,
                         issue_id |-> body.issue_id]
             r == CommentInsert([s EXCEPT !.now = t], comment)
         IN IF r.ok
            THEN Ok(r.store,
                    [success |-> TRUE,
                     comment |-> CommentFormat(Row(r.store.comments, s.seq.comments))])
            ELSE Reply(422, r.store)

\* patch_issues with the test on `open` inverted: closed_at is stamped on reopening
patch_issues_StampsOnOpen(s, token, id, body, t1, t2) ==
    IF Authorize("PATCH /issues/:id", token) # 0
    THEN Reply(Authorize("PATCH /issues/:id", token), s)
    ELSE IF id \notin Ids(s.issues) THEN Reply(404, s)
    ELSE IF body.title = Absent /\ body.text = Absent /\ body.open = Absent
         THEN Reply(400, s)
    ELSE LET issue == Row(s.issues, id)
             i1 == IF body.title # Absent
                   THEN [issue EXCEPT !.title = body.title] ELSE issue
             i2 == IF body.text # Absent
                   THEN [i1 EXCEPT !.text = body.text] ELSE i1
             i3 == IF body.open # Absent
                   THEN [i2 EXCEPT !.open = (body.open = JTrue),
                                   !.closed_at = IF ~ Falsy(body.open)
                                                 THEN t1 ELSE @]
                   ELSE i2
             i4 == [i3 EXCEPT !.last_modified = t2]
             r == IssueUpdate([s EXCEPT !.now = t2], i4)
         IN IF r.ok
            THEN Ok(r.store, [success |-> TRUE,
                              issue |-> format_no_comments(r.store, i4)])
            ELSE Reply(422, r.store)

\* patch_issues leaving closed_at alone when it closes the issue
patch_issues_NeverStamps(s, token, id, body, t1, t2) ==
    IF Authorize("PATCH /issues/:id", token) # 0
    THEN Reply(Authorize("PATCH /issues/:id", token), s)
    ELSE IF id \notin Ids(s.issues) THEN Reply(404, s)
    ELSE IF body.title = Absent /\ body.text = Absent /\ body.open = Absent
         THEN Reply(400, s)
    ELSE LET issue == Row(s.issues, id)
             i1 == IF body.title # Absent
                   THEN [issue EXCEPT !.title = body.title] ELSE issue
             i2 == IF body.text # Absent
                   THEN [i1 EXCEPT !.text = body.text] ELSE i1
             i3 == IF body.open # Absent
                   THEN [i2 EXCEPT !.open = (body.open = JTrue),
                                   !.closed_at = @]
                   ELSE i2
             i4 == [i3 EXCEPT !.last_modified = t2]
             r == IssueUpdate([s EXCEPT !.now = t2], i4)
         IN IF r.ok
            THEN Ok(r.store, [success |-> TRUE,
                              issue |-> format_no_comments(r.store, i4)])
            ELSE Reply(422, r.store)

\* patch_issues without its last_modified stamp
patch_issues_NoLastModified(s, token, id, body, t1, t2) ==
    IF Authorize("PATCH /issues/:id", token) # 0
    THEN Reply(Authorize("PATCH /issues/:id", token), s)
    ELSE IF id \notin Ids(s.issues) THEN Reply(404, s)
    ELSE IF body.title = Absent /\ body.text = Absent /\ body.open = Absent
         THEN Reply(400, s)
    ELSE LET issue == Row(s.issues, id)
             i1 == IF body.title # Absent
                   THEN [issue EXCEPT !.title = body.title] ELSE issue
             i2 == IF body.text # Absent
                   THEN [i1 EXCEPT !.text = body.text] ELSE i1
             i3 == IF body.open # Absent
                   THEN [i2 EXCEPT !.open = (body.open = JTrue),
                                   !.closed_at = IF Falsy(body.open)
                                                 THEN t1 ELSE @]
                   ELSE i2
             i4 == i3
             r == IssueUpdate([s EXCEPT !.now = t2], i4)
         IN IF r.ok
            THEN Ok(r.store, [success |-> TRUE,
                              issue |-> format_no_comments(r.store, i4)])
            ELSE Reply(422, r.store)

\* patch_issues looking the issue up before the permission is checked
patch_issues_LookupBeforeAuth(s, token, id, body, t1, t2) ==
    IF id \notin Ids(s.issues) THEN Reply(404, s)
    ELSE IF Authorize("PATCH /issues/:id", token) # 0
    THEN Reply(Authorize("PATCH /issues/:id", token), s)
    ELSE IF body.title = Absent /\ body.text = Absent /\ body.open = Absent
         THEN Reply(400, s)
    ELSE LET issue == Row(s.issues, id)
             i1 == IF body.title # Absent
                   THEN [issue EXCEPT !.title = body.title] ELSE issue
             i2 == IF body.text # Absent
                   THEN [i1 EXCEPT !.text = body.text] ELSE i1
             i3 == IF body.open # Absent
                   THEN [i2 EXCEPT !.open = (body.open = JTrue),
                                   !.closed_at = IF Falsy(body.open)
                                                 THEN t1 ELSE @]
                   ELSE i2
             i4 == [i3 EXCEPT !.last_modified = t2]
             r == IssueUpdate([s EXCEPT !.now = t2], i4)
         IN IF r.ok
            THEN Ok(r.store, [success |-> TRUE,
                              issue |-> format_no_comments(r.store, i4)])
            ELSE Reply(422, r.store)

\* PATCH /issues/<id>; t1 and t2 are the two readings of datetime.now()
patch_issues(s, token, id, body, t1, t2) ==
    IF Authorize("PATCH /issues/:id", token) # 0
    THEN Reply(Authorize("PATCH /issues/:id", token), s)
    ELSE IF id \notin Ids(s.issues) THEN Reply(404, s)
    ELSE IF body.title = Absent /\ body.text = Absent /\ body.open = Absent
         THEN Reply(400, s)
    ELSE LET issue == Row(s.issues, id)
             i1 == IF body.title # Absent
                   THEN [issue EXCEPT !.title = body.title] ELSE issue
             i2 == IF body.text # Absent
                   THEN [i1 EXCEPT !.text = body.text] ELSE i1
             i3 == IF body.open # Absent
                   THEN [i2 EXCEPT !.open = (body.open = JTrue),
                                   !.closed_at = IF Falsy(body.open)
                                                 THEN t1 ELSE @]
                   ELSE i2
             i4 == [i3 EXCEPT !.last_modified = t2]
             r == IssueUpdate([s EXCEPT !.now = t2], i4)
         IN IF r.ok
            THEN Ok(r.store, [success |-> TRUE,
                              issue |-> format_no_comments(r.store, i4)])
            ELSE Reply(422, r.store)

\* patch_comments looking at the body before it looks the comment up
patch_comments_BodyCheckFirst(s, token, id, body, t) ==
    IF Authorize("PATCH /comments/:id", token) # 0
    THEN Reply(Authorize("PATCH /comments/:id", token), s)
    ELSE IF body.text = Absent /\ body.user_id = NoId /\ body.issue_id = NoId
         THEN Reply(400, s)
    ELSE IF id \notin Ids(s.comments) THEN Reply(404, s)
    ELSE LET comment == Row(s.comments, id)
             c1 == IF body.text # Absent
                   THEN [comment EXCEPT !.text = body.text] ELSE comment
             c2 == [c1 EXCEPT !.last_modified = t]
             r == CommentUpdate([s EXCEPT !.now = t], c2)
         IN IF r.ok
            THEN Ok(r.store, [success |-> TRUE, comment |-> CommentFormat(c2)])
            ELSE Reply(422, r.store)

\* patch_comments also taking issue_id and user_id from the body
patch_comments_Reattaches(s, token, id, body, t) ==
    IF Authorize("PATCH /comments/:id", token) # 0
    THEN Reply(Authorize("PATCH /comments/:id", token), s)
    ELSE IF id \notin Ids(s.comments) THEN Reply(404, s)
    ELSE IF body.text = Absent /\ body.user_id = NoId /\ body.issue_id = NoId
         THEN Reply(400, s)
    ELSE LET comment == Row(s.comments, id)
             c1 == IF body.text # Absent
                   THEN [comment EXCEPT !.text = body.text] ELSE comment
             c2 == [c1 EXCEPT !.last_modified = t,
                             !.issue_id = IF body.issue_id # NoId
                                          THEN body.issue_id ELSE @,
                             !.user_id = IF body.user_id # NoId
                                         THEN body.user_id ELSE @]
             r == CommentUpdate([s EXCEPT !.now = t], c2)
         IN IF r.ok
            THEN Ok(r.store, [success |-> TRUE, comment |-> CommentFormat(c2)])
            ELSE Reply(422, r.store)

\* PATCH /comments/<id>
patch_comments(s, token, id, body, t) ==
    IF Authorize("PATCH /comments/:id", token) # 0
    THEN Reply(Authorize("PATCH /comments/:id", token), s)
    ELSE IF id \notin Ids(s.comments) THEN Reply(404, s)
    ELSE IF body.text = Absent /\ body.user_id = NoId /\ body.issue_id = NoId
         THEN Reply(400, s)
    ELSE LET comment == Row(s.comments, id)
             c1 == IF body.text # Absent
                   THEN [comment EXCEPT !.text = body.text] ELSE comment
             c2 == [c1 EXCEPT !.last_modified = t]
             r == CommentUpdate([s EXCEPT !.now = t], c2)
         IN IF r.ok
            THEN Ok(r.store, [success |-> TRUE, comment |-> CommentFormat(c2)])
            ELSE Reply(422, r.store)

\* delete_issues answering 200 although the commit raised
delete_issues_IgnoresFailure(s, token, id) ==
    IF Authorize("DELETE /issues/:id", token) # 0
    THEN Reply(Authorize("DELETE /issues/:id", token), s)
    ELSE IF id \notin Ids(s.issues) THEN Reply(404, s)
    ELSE LET r == IssueDelete(s, Row(s.issues, id))
         IN Ok(r.store, [success |-> TRUE, delete |-> id])

\* DELETE /issues/<id>
delete_issues(s, token, id) ==
    IF Authorize("DELETE /issues/:id", token) # 0
    THEN Reply(Authorize("DELETE /issues/:id", token), s)
    ELSE IF id \notin Ids(s.issues) THEN Reply(404, s)
    ELSE LET r == IssueDelete(s, Row(s.issues, id))
         IN IF r.ok
            THEN Ok(r.store, [success |-> TRUE, delete |-> id])
            ELSE Reply(422, r.store)

\* delete_comments deleting before the permission is looked at
delete_comments_DeletesBeforeAuth(s, token, id) ==
    IF id \notin Ids(s.comments)
    THEN Reply(IF Authorize("DELETE /comments/:id", token) # 0
               THEN Authorize("DELETE /comments/:id", token) ELSE 404, s)
    ELSE LET r == CommentDelete(s, Row(s.comments, id))
         IN IF Authorize("DELETE /comments/:id", token) # 0
            THEN Reply(Authorize("DELETE /comments/:id", token), r.store)
            ELSE IF r.ok
            THEN Ok(r.store, [success |-> TRUE, delete |-> id])
            ELSE Reply(422, r.store)

\* DELETE /comments/<id>
delete_comments(s, token, id) ==
    IF Authorize("DELETE /comments/:id", token) # 0
    THEN Reply(Authorize("DELETE /comments/:id", token), s)
    ELSE IF id \notin Ids(s.comments) THEN Reply(404, s)
    ELSE LET r == CommentDelete(s, Row(s.comments, id))
         IN IF r.ok
            THEN Ok(r.store, [success |-> TRUE, delete |-> id])
            ELSE Reply(422, r.store)

\* A request that matches no route: the framework aborts with 405 when the
\* path has routes for other methods and with 404 when no route has the
\* path, and error_handler answers.
Unrouted == {"GET /issuess", "PUT /issues"}

no_route(s, request) ==
    IF request = "PUT /issues" THEN Reply(405, s) ELSE Reply(404, s)

----------------------------------------------------------------------------
(* Inputs: the requests the clients send *)

UserIdInputs == 1..MaxUserId
IssueIdInputs == 1..MaxIssueId
CommentIdInputs == 1..MaxCommentId

UserBodies ==
    {UserBody("{...}", a, "e", 1, r) : a \in AuthIds, r \in RoleLists}
    \cup {UserBody(Absent, Absent, Absent, NullTime, "[Admin]"),
          UserBody(Empty, Absent, Absent, NullTime, "[Admin]"),
          UserBody("{...}", Absent, "e", 1, "[Admin]"),
          UserBody("{...}", Empty, "e", 1, "[Admin]"),
          UserBody("{...}", "auth0|a", Absent, 1, "[Admin]"),
          UserBody("{...}", "auth0|a", "e", NullTime, "[Admin]"),
          UserBody("{...}", "auth0|a", "e", 1, Absent),
          UserBody("{...}", "auth0|a", "e", 1, Empty)}

IssueBodies ==
    {IssueBody(ti, "x", u) : ti \in Titles, u \in UserIdInputs}
    \cup {IssueBody(Absent, "x", 1), IssueBody(Empty, "x", 1),
          IssueBody("A", Absent, 1), IssueBody("A", Empty, 1),
          IssueBody("A", "x", NoId), IssueBody("A", "x", EmptyId)}

CommentBodies ==
    {CommentBody("c", u, i) : u \in UserIdInputs, i \in IssueIdInputs}
    \cup {CommentBody(Absent, 1, 1), CommentBody(Empty, 1, 1),
          CommentBody("c", NoId, 1), CommentBody("c", EmptyId, 1),
          CommentBody("c", 1, NoId), CommentBody("c", 1, EmptyId)}

IssuePatches ==
    {IssuePatch(ti, te, op) : ti \in Titles \cup {Absent}, te \in {Absent, "y"},
                              op \in {Absent, JTrue, JFalse}}
    \cup {IssuePatch(Null, Absent, Absent)}

CommentPatches ==
    {CommentPatch(te, NoId, NoId) : te \in {Absent, "d", Null}}
    \cup {CommentPatch(te, 2, 2) : te \in {Absent, "d"}}
    \cup {CommentPatch(Absent, 1, 2), CommentPatch(Absent, 2, 1)}

\* the readings datetime.now() can give from the current state on
Readings(s) == s.now..MaxTime

\* The requests sent.  Every body and every clock reading is sent with the
\* admin token (which holds every permission) and from the accepted host; the
\* other tokens and the other host send one body per route.  The identity
\* provider calls the user routes without a token.
UserPostRequests ==
    {[token |-> NoToken, host |-> AcceptedHost, body |-> b] : b \in UserBodies}
    \cup {[token |-> k, host |-> h,
           body |-> UserBody("{...}", "auth0|a", "e", 1, "[Admin]")] :
             k \in {NoToken, "admin"}, h \in Hosts}

UserPatchRequests(s) ==
    {[token |-> NoToken, host |-> AcceptedHost, body |-> b, t |-> t] :
        b \in UserBodies, t \in Readings(s)}
    \cup {[token |-> k, host |-> h,
           body |-> UserBody("{...}", "auth0|a", "e", 1, "[Commenter]"), t |-> s.now] :
             k \in {NoToken, "admin"}, h \in Hosts}

IssuePostRequests(s) ==
    {[token |-> "admin", body |-> b, t |-> t] : b \in IssueBodies, t \in Readings(s)}
    \cup {[token |-> k, body |-> IssueBody("A", "x", 1), t |-> s.now] :
             k \in Tokens \ {"admin"}}

CommentPostRequests(s) ==
    {[token |-> "admin", body |-> b, t |-> t] : b \in CommentBodies, t \in Readings(s)}
    \cup {[token |-> k, body |-> CommentBody("c", 1, 1), t |-> s.now] :
             k \in Tokens \ {"admin"}}

IssuePatchRequests(s) ==
    {[token |-> "admin", id |-> i, body |-> b, t1 |-> t1, t2 |-> t2] :
        i \in IssueIdInputs, b \in IssuePatches,
        t1 \in Readings(s), t2 \in Readings(s)}
    \cup {[token |-> k, id |-> i, body |-> IssuePatch("B", Absent, JFalse),
           t1 |-> s.now, t2 |-> s.now] :
             k \in Tokens \ {"admin"}, i \in IssueIdInputs}

CommentPatchRequests(s) ==
    {[token |-> "admin", id |-> i, body |-> b, t |-> t] :
        i \in CommentIdInputs, b \in CommentPatches, t \in Readings(s)}
    \cup {[token |-> k, id |-> i, body |-> CommentPatch("d", NoId, NoId), t |-> s.now] :
             k \in Tokens \ {"admin"}, i \in CommentIdInputs}

----------------------------------------------------------------------------
(* The state machine *)

Init ==
    /\ users = {}
    /\ issues = {}
    /\ comments = {}
    /\ seq = [users |-> 1, issues |-> 1, comments |-> 1]
    /\ now = 1
    /\ resp = [route |-> "", token |-> NoToken, id |-> 0, status |-> 0]
    /\ served = 0
    /\ inflight = {}

\* the response is sent and the store is as the handler left it; the number
\* of requests and the id sequences are capped by the bounds of the model
Respond(route, token, id, r) ==
    /\ served < MaxRequests
    /\ r.store.seq.users <= MaxUserId + 1
    /\ r.store.seq.issues <= MaxIssueId + 1
    /\ r.store.seq.comments <= MaxCommentId + 1
    /\ users' = r.store.users
    /\ issues' = r.store.issues
    /\ comments' = r.store.comments
    /\ seq' = r.store.seq
    /\ now' = r.store.now
    /\ resp' = [route |-> route, token |-> token, id |-> id, status |-> r.status]
    /\ served' = served + 1
    /\ inflight' = inflight

AddUser ==
    \E q \in UserPostRequests :
        Respond("POST /users", q.token, 0, add_user(Store, q.token, q.host, q.body))

UpdateUser ==
    \E q \in UserPatchRequests(Store) :
        Respond("PATCH /users", q.token, 0, update_user(Store, q.token, q.host, q.body, q.t))

GetIssues ==
    \E token \in Tokens :
        Respond("GET /issues", token, 0, get_issues(Store, token))

GetIssue ==
    \E token \in Tokens, id \in IssueIdInputs :
        Respond("GET /issues/:id", token, id, get_issue(Store, token, id))

PostIssue ==
    \E q \in IssuePostRequests(Store) :
        Respond("POST /issues", q.token, 0, post_issue(Store, q.token, q.body, q.t))

PostComment ==
    \E q \in CommentPostRequests(Store) :
        Respond("POST /comments", q.token, 0, post_comment(Store, q.token, q.body, q.t))

PatchIssues ==
    \E q \in IssuePatchRequests(Store) :
        q.t1 <= q.t2 /\ Respond("PATCH /issues/:id", q.token, q.id,
                                patch_issues(Store, q.token, q.id, q.body, q.t1, q.t2))

PatchComments ==
    \E q \in CommentPatchRequests(Store) :
        Respond("PATCH /comments/:id", q.token, q.id,
                patch_comments(Store, q.token, q.id, q.body, q.t))

DeleteIssues ==
    \E token \in Tokens, id \in IssueIdInputs :
        Respond("DELETE /issues/:id", token, id, delete_issues(Store, token, id))

DeleteComments ==
    \E token \in Tokens, id \in CommentIdInputs :
        Respond("DELETE /comments/:id", token, id, delete_comments(Store, token, id))

NoRoute ==
    \E request \in Unrouted :
        Respond(request, NoToken, 0, no_route(Store, request))

Next ==
    \/ AddUser
    \/ UpdateUser
    \/ GetIssues
    \/ GetIssue
    \/ PostIssue
    \/ PostComment
    \/ PatchIssues
    \/ PatchComments
    \/ DeleteIssues
    \/ DeleteComments
    \/ NoRoute

Spec == Init /\ [][Next]_vars

----------------------------------------------------------------------------
(* POST /users served by several workers at once: each request runs its     *)
(* checks and its lookup of the external id in one step and its INSERT and  *)
(* commit in a later one, and the steps of different requests interleave    *)

Clients == 1..MaxClients

\* add_user up to the lookup of the external id: 0 when the request goes on
\* to the insert, otherwise the status it is aborted with
add_user_checks(s, token, host, body) ==
    IF host # AcceptedHost THEN 401
    ELSE IF (body.user # Absent /\ Falsy(body.user))
            \/ (body.roles # Absent /\ Falsy(body.roles)) THEN 400
    ELSE IF body.user = Absent THEN 500
    ELSE IF body.user_id = Absent \/ Falsy(body.user_id) THEN 400
    ELSE IF Cardinality({u \in s.users : u.auth_id = body.user_id}) > 1 THEN 500
    ELSE IF \E u \in s.users : u.auth_id = body.user_id THEN 422
    ELSE 0

\* add_user from the construction of the User to the response
add_user_insert(s, body) ==
    LET user == [id |-> 0,
                 auth_id |-> body.user_id,
                 email |-> Get(body.email),
                 last_login |-> body.created_at,
                 roles |-> Get(body.roles)]
        r == UserInsert(s, user)
    IN IF r.ok
       THEN Ok(r.store, [success |-> TRUE,
                         user |-> UserFormatShort(Row(r.store.users, s.seq.users))])
       ELSE Reply(422, r.store)

\* a worker takes a POST /users request and runs it up to the lookup: the
\* request is answered at once when a check aborts it, and waits for its
\* insert otherwise
AddUserCheck ==
    \E c \in Clients, q \in UserPostRequests :
        /\ c \notin {p.client : p \in inflight}
        /\ IF add_user_checks(Store, q.token, q.host, q.body) # 0
           THEN Respond("POST /users", q.token, 0,
                        Reply(add_user_checks(Store, q.token, q.host, q.body), Store))
           ELSE /\ inflight' = inflight \cup
                                   {[client |-> c, token |-> q.token, body |-> q.body]}
                /\ UNCHANGED <<users, issues, comments, seq, now, resp, served>>

\* a waiting request inserts its user, commits and is answered
AddUserInsert ==
    \E p \in inflight :
        LET r == add_user_insert(Store, p.body)
        IN /\ served < MaxRequests
           /\ r.store.seq.users <= MaxUserId + 1
           /\ users' = r.store.users
           /\ seq' = r.store.seq
           /\ resp' = [route |-> "POST /users", token |-> p.token, id |-> 0,
                       status |-> r.status]
           /\ served' = served + 1
           /\ inflight' = inflight \ {p}
           /\ UNCHANGED <<issues, comments, now>>

NextConcurrent ==
    \/ AddUserCheck
    \/ AddUserInsert

SpecConcurrent == Init /\ [][NextConcurrent]_vars

----------------------------------------------------------------------------
(* What the claims are stated over: every request of the input sets, put to *)
(* the handler in the current state                                         *)

Success(status) == status = 200

PatchTimes(s) == {q \in [t1 : Readings(s), t2 : Readings(s)] : q.t1 <= q.t2}

GatedRoutes == {route \in Routes : Gated(route)}

Verified(token) == token # NoToken

MayCall(route, token) == RequiredPermission(route) \in TokenPermissions(token)

\* the replies of a route to every request that carries `token`
RouteReplies(route, token) ==
    CASE route = "POST /users" ->
            {add_user(Store, token, h, b) : h \in Hosts, b \in UserBodies}
      [] route = "PATCH /users" ->
            {update_user(Store, token, h, b, t) :
                h \in Hosts, b \in UserBodies, t \in Readings(Store)}
      [] route = "GET /issues" -> {get_issues(Store, token)}
      [] route = "GET /issues/:id" ->
            {get_issue(Store, token, i) : i \in IssueIdInputs}
      [] route = "POST /issues" ->
            {post_issue(Store, token, b, t) : b \in IssueBodies, t \in Readings(Store)}
      [] route = "POST /comments" ->
            {post_comment(Store, token, b, t) :
                b \in CommentBodies, t \in Readings(Store)}
      [] route = "PATCH /issues/:id" ->
            {patch_issues(Store, token, i, b, q.t1, q.t2) :
                i \in IssueIdInputs, b \in IssuePatches, q \in PatchTimes(Store)}
      [] route = "PATCH /comments/:id" ->
            {patch_comments(Store, token, i, b, t) :
                i \in CommentIdInputs, b \in CommentPatches, t \in Readings(Store)}
      [] route = "DELETE /issues/:id" ->
            {delete_issues(Store, token, i) : i \in IssueIdInputs}
      [] route = "DELETE /comments/:id" ->
            {delete_comments(Store, token, i) : i \in CommentIdInputs}

SameTables(s1, s2) ==
    /\ s1.users = s2.users
    /\ s1.issues = s2.issues
    /\ s1.comments = s2.comments

\* a registration as the identity provider sends it: the user object with
\* its id, email and creation time, and no empty top-level value
CompleteUserBody(b) ==
    /\ b.user = "{...}"
    /\ b.user_id \in AuthIds
    /\ b.email # Absent
    /\ b.created_at # NullTime
    /\ (b.roles = Absent \/ ~ Falsy(b.roles))

\* an issue body that passes the empty-field check of POST /issues
NoEmptyIssueField(b) ==
    /\ (b.title = Absent \/ ~ Falsy(b.title))
    /\ (b.text = Absent \/ ~ Falsy(b.text))
    /\ b.user_id # EmptyId

----------------------------------------------------------------------------
(* Claims *)

\* C1: POST /users from the accepted host with a complete body whose external
\* id no stored user has answers 200 and stores exactly one more user, with
\* that external id; the same request again, and any such request for an
\* external id that a stored user has, answers 422 and leaves the users as
\* they are.
C1_AddUserOnce ==
    \A k \in Tokens, b \in UserBodies :
        CompleteUserBody(b) =>
            LET r == add_user(Store, k, AcceptedHost, b)
                again == add_user(r.store, k, AcceptedHost, b)
            IN IF \E u \in users : u.auth_id = b.user_id
               THEN r.status = 422 /\ ~ Success(r.status) /\ r.store.users = users
               ELSE /\ r.status = 200 /\ Success(r.status)
                    /\ users \subseteq r.store.users
                    /\ Cardinality(r.store.users) = Cardinality(users) + 1
                    /\ \E u \in r.store.users \ users : u.auth_id = b.user_id
                    /\ again.status = 422
                    /\ again.store.users = r.store.users

\* the second POST /users has been answered 422: every value the users'
\* sequence gave out is a stored user, so no insert failed
C1_Witness ==
    /\ resp.route = "POST /users"
    /\ resp.status = 422
    /\ users # {}
    /\ seq.users = Cardinality(users) + 1
    /\ issues = {}

\* C2: no two stored issues have the same title.
C2_TitlesUnique ==
    \A i \in issues, j \in issues : i.id # j.id => i.title # j.title

\* two issues are stored and a PATCH /issues/:id has just succeeded
C2_Witness ==
    /\ resp.route = "PATCH /issues/:id"
    /\ resp.status = 200
    /\ Cardinality(issues) = 2

\* C3: POST /issues with the post:issues permission, no empty field and the
\* title of a stored issue answers 422 and leaves the issues as they are.
C3_DuplicateTitleRejected ==
    \A k \in Tokens, b \in IssueBodies, t \in Readings(Store) :
        (/\ MayCall("POST /issues", k)
         /\ NoEmptyIssueField(b)
         /\ \E i \in issues : i.title = b.title)
        => LET r == post_issue(Store, k, b, t)
           IN /\ r.status = 422
              /\ ~ Success(r.status)
              /\ r.store.issues = issues

\* a POST /issues has been answered 422 and has used up an id, in a state
\* where a request with no empty field and the title of the stored issue
\* is refused
C3_Witness ==
    /\ resp.route = "POST /issues"
    /\ resp.status = 422
    /\ Ids(issues) = {1}
    /\ seq.issues = 3
    /\ \E b \in IssueBodies :
          /\ NoEmptyIssueField(b)
          /\ b.user_id \in Ids(users)
          /\ \E i \in issues : i.title = b.title
          /\ post_issue(Store, resp.token, b, now).status = 422

\* C4: DELETE /issues/:id with the delete:issues permission on a stored issue
\* that has comments answers 200, and afterwards neither the issue nor any
\* comment of it is stored.
C4_DeleteIssueRemovesComments ==
    \A k \in Tokens, id \in IssueIdInputs :
        (/\ MayCall("DELETE /issues/:id", k)
         /\ id \in Ids(issues)
         /\ \E c \in comments : c.issue_id = id)
        => LET r == delete_issues(Store, k, id)
           IN /\ r.status = 200
              /\ id \notin Ids(r.store.issues)
              /\ \A c \in r.store.comments : c.issue_id # id

\* a DELETE /issues/:id that carried the delete:issues permission was put to
\* a stored issue that has a comment, and was answered 422
C4_Witness ==
    /\ resp.route = "DELETE /issues/:id"
    /\ MayCall("DELETE /issues/:id", resp.token)
    /\ resp.status = 422
    /\ resp.id \in Ids(issues)
    /\ \E c \in comments : c.issue_id = resp.id

\* C5: every stored comment's issue_id is the id of a stored issue and its
\* user_id the id of a stored user.
C5_CommentsReferToStoredRows ==
    \A c \in comments : c.issue_id \in Ids(issues) /\ c.user_id \in Ids(users)

\* a DELETE /issues/:id was put to an issue that has a comment
C5_Witness ==
    /\ resp.route = "DELETE /issues/:id"
    /\ \E c \in comments : c.issue_id = resp.id

\* C6: a successful PATCH /issues/:id changes closed_at only when it moves
\* the issue from open to closed, and then stamps it; with open=false on a
\* closed issue, and with open=true, closed_at stays as it was.
C6_ClosedAtOnlyOnTransition ==
    \A k \in Tokens, id \in Ids(issues), b \in IssuePatches, q \in PatchTimes(Store) :
        LET r == patch_issues(Store, k, id, b, q.t1, q.t2)
            old == Row(issues, id)
            new == Row(r.store.issues, id)
            closes == old.open /\ ~ new.open
        IN r.status = 200 =>
              /\ new.closed_at # old.closed_at => closes
              /\ closes => new.closed_at = q.t1
              /\ b.open = JFalse /\ ~ old.open => new.closed_at = old.closed_at
              /\ b.open = JTrue => new.closed_at = old.closed_at

\* C7: a successful PATCH /issues/:id with open=false leaves the issue with a
\* closed_at that is not null; a successful PATCH of an open issue with no
\* open key leaves closed_at as it was.
C7_CloseStampsClosedAt ==
    \A k \in Tokens, id \in Ids(issues), b \in IssuePatches, q \in PatchTimes(Store) :
        LET r == patch_issues(Store, k, id, b, q.t1, q.t2)
            old == Row(issues, id)
            new == Row(r.store.issues, id)
        IN r.status = 200 =>
              /\ b.open = JFalse => new.closed_at # NullTime
              /\ b.open = Absent /\ old.open => new.closed_at = old.closed_at

\* a PATCH /issues/:id has succeeded and left its issue closed, stamped with
\* the time of the request
C7_Witness ==
    /\ resp.route = "PATCH /issues/:id"
    /\ resp.status = 200
    /\ \E i \in issues :
          i.id = resp.id /\ ~ i.open /\ i.closed_at # NullTime /\ i.closed_at = now

C9_RejectedChangesNothing ==
    \A route \in GatedRoutes, k \in Tokens :
        \A r \in RouteReplies(route, k) :
            r.status \in {401, 403} => SameTables(r.store, Store)

\* a DELETE /comments/:id without a token has been answered 401 and the
\* comment is still stored
C9_Witness ==
    /\ resp.route = "DELETE /comments/:id"
    /\ resp.token = NoToken
    /\ resp.status = 401
    /\ resp.id \in Ids(comments)

\* C10: GET /issues and POST /users ask for no token: without one, GET /issues
\* answers 200, POST /users from the accepted host is never answered 401 or
\* 403, and both answer as they do to a request that carries a token.
C10_PublicRoutesNeedNoToken ==
    /\ ~ Gated("GET /issues")
    /\ ~ Gated("POST /users")
    /\ get_issues(Store, NoToken).status = 200
    /\ \A b \in UserBodies :
          add_user(Store, NoToken, AcceptedHost, b).status \notin {401, 403}
    /\ \A k \in Tokens, h \in Hosts, b \in UserBodies :
          add_user(Store, k, h, b) = add_user(Store, NoToken, h, b)
    /\ \A k \in Tokens : get_issues(Store, k) = get_issues(Store, NoToken)

\* GET /issues without a token has been answered 200 over a stored issue
C10_Witness ==
    /\ resp.route = "GET /issues"
    /\ resp.token = NoToken
    /\ resp.status = 200
    /\ issues # {}

\* C11: POST /users and PATCH /users from a host other than the accepted one
\* answer 401 and leave the users as they are.
C11_OtherHostRejected ==
    \A k \in Tokens, h \in Hosts \ {AcceptedHost}, b \in UserBodies,
       t \in Readings(Store) :
        LET posted == add_user(Store, k, h, b)
            patched == update_user(Store, k, h, b, t)
        IN /\ posted.status = 401 /\ ~ posted.body.success
           /\ posted.store.users = users
           /\ patched.status = 401 /\ ~ patched.body.success
           /\ patched.store.users = users

\* a PATCH /users for the external id of a stored user has been answered 401
C11_Witness ==
    /\ resp.route = "PATCH /users"
    /\ resp.status = 401
    /\ \E u \in users : u.auth_id = "auth0|a"

\* C12: GET /issues/:id with the get:issue permission answers 404 when no
\* issue has the id; for a stored issue it answers 200 with the issue's long
\* form, whose comments map holds exactly the stored comments of that issue,
\* each under its own id.
C12_GetIssueLongForm ==
    \A k \in Tokens, id \in IssueIdInputs :
        MayCall("GET /issues/:id", k) =>
            LET r == get_issue(Store, k, id)
            IN IF id \notin Ids(issues)
               THEN r.status = 404 /\ ~ r.body.success
               ELSE /\ r.status = 200 /\ r.body.success
                    /\ r.body.issue.id = id
                    /\ r.body.issue.title = Row(issues, id).title
                    /\ r.body.issue.text = Row(issues, id).text
                    /\ r.body.issue.open = Row(issues, id).open
                    /\ DOMAIN r.body.issue.comments =
                          {c.id : c \in {c \in comments : c.issue_id = id}}
                    /\ \A cid \in DOMAIN r.body.issue.comments :
                          LET c == r.body.issue.comments[cid]
                          IN /\ c.id = cid
                             /\ c.issue_id = id
                             /\ c.text = Row(comments, cid).text
                             /\ c.user_id = Row(comments, cid).user_id

\* a GET /issues/:id has been answered 200 for an issue that has a comment
C12_Witness ==
    /\ resp.route = "GET /issues/:id"
    /\ resp.status = 200
    /\ \E c \in comments : c.issue_id = resp.id

\* C13: POST /issues, POST /comments and POST /users answer 400 and create
\* no row whenever a required field (title, text, user_id; text, user_id,
\* issue_id; user, user_id) is missing from the body or present but empty.
C13_MissingOrEmptyFieldIs400 ==
    /\ \A k \in Tokens, b \in IssueBodies, t \in Readings(Store) :
          (/\ MayCall("POST /issues", k)
           /\ \/ b.title \in {Absent, Empty}
              \/ b.text \in {Absent, Empty}
              \/ b.user_id \in {NoId, EmptyId})
          => LET r == post_issue(Store, k, b, t)
             IN r.status = 400 /\ r.store.issues = issues
    /\ \A k \in Tokens, b \in CommentBodies, t \in Readings(Store) :
          (/\ MayCall("POST /comments", k)
           /\ \/ b.text \in {Absent, Empty}
              \/ b.user_id \in {NoId, EmptyId}
              \/ b.issue_id \in {NoId, EmptyId})
          => LET r == post_comment(Store, k, b, t)
             IN r.status = 400 /\ r.store.comments = comments
    /\ \A k \in Tokens, b \in UserBodies :
          (b.user \in {Absent, Empty} \/ b.user_id \in {Absent, Empty})
          => LET r == add_user(Store, k, AcceptedHost, b)
             IN r.status = 400 /\ r.store.users = users

\* C14: PATCH and DELETE on /issues/:id and /comments/:id with the route's
\* permission and an id that no stored row has answer 404 with success false
\* and leave the users, the issues and the comments as they are.
C14_UnknownIdIs404 ==
    \A route \in {"PATCH /issues/:id", "PATCH /comments/:id",
                  "DELETE /issues/:id", "DELETE /comments/:id"}, k \in Tokens :
        MayCall(route, k) =>
            LET unknownIssues == IssueIdInputs \ Ids(issues)
                unknownComments == CommentIdInputs \ Ids(comments)
                replies ==
                    CASE route = "PATCH /issues/:id" ->
                            {patch_issues(Store, k, i, b, q.t1, q.t2) :
                                i \in unknownIssues, b \in IssuePatches,
                                q \in PatchTimes(Store)}
                      [] route = "PATCH /comments/:id" ->
                            {patch_comments(Store, k, i, b, t) :
                                i \in unknownComments, b \in CommentPatches,
                                t \in Readings(Store)}
                      [] route = "DELETE /issues/:id" ->
                            {delete_issues(Store, k, i) : i \in unknownIssues}
                      [] route = "DELETE /comments/:id" ->
                            {delete_comments(Store, k, i) : i \in unknownComments}
            IN \A r \in replies :
                  r.status = 404 /\ ~ r.body.success /\ SameTables(r.store, Store)

\* a PATCH /comments/:id that carried the permission has been answered 404
\* for an id no comment has, while a comment is stored
C14_Witness ==
    /\ resp.route = "PATCH /comments/:id"
    /\ MayCall("PATCH /comments/:id", resp.token)
    /\ resp.status = 404
    /\ resp.id \notin Ids(comments)
    /\ comments # {}

\* C15: the caller can tell the duplicate-title failure of POST /issues from
\* another persistence failure of the route (a user_id that no user has):
\* the two responses differ.
C15_DuplicateTitleDistinguishable ==
    \A k \in Tokens, dup \in IssueBodies, other \in IssueBodies,
       t \in Readings(Store) :
        (/\ MayCall("POST /issues", k)
         /\ dup.title \in Titles /\ dup.text = "x" /\ dup.user_id \in Ids(users)
         /\ \E i \in issues : i.title = dup.title
         /\ other.title \in Titles /\ other.text = "x"
         /\ \A i \in issues : i.title # other.title
         /\ other.user_id \in UserIdInputs \ Ids(users))
        => LET r1 == post_issue(Store, k, dup, t)
               r2 == post_issue(Store, k, other, t)
           IN <<r1.status, r1.body>> # <<r2.status, r2.body>>

\* C16: no request removes a stored user.
C16_UsersNeverRemoved ==
    [][\A u \in users : u.id \in Ids(users')]_vars

\* a DELETE /issues/:id has been answered 200 and the user that was stored,
\* the author of the issue, is stored no more
C16_Witness ==
    /\ resp.route = "DELETE /issues/:id"
    /\ resp.status = 200
    /\ seq.users > 1
    /\ users = {}

\* C17: a successful DELETE /comments/:id removes that comment and nothing
\* else: every issue, every user and every other comment stays as it was.
C17_DeleteCommentRemovesOnlyIt ==
    \A k \in Tokens, id \in Ids(comments) :
        LET r == delete_comments(Store, k, id)
        IN r.status = 200 =>
              /\ r.store.comments = comments \ {Row(comments, id)}
              /\ Cardinality(r.store.comments) = Cardinality(comments) - 1
              /\ r.store.issues = issues
              /\ r.store.users = users

\* a DELETE /comments/:id has been answered 200 and the issue and the user
\* the comment referred to are stored no more
C17_Witness ==
    /\ resp.route = "DELETE /comments/:id"
    /\ resp.status = 200
    /\ seq.comments > 1 /\ comments = {}
    /\ seq.issues > 1 /\ issues = {}
    /\ seq.users > 1 /\ users = {}

\* a response with one of the six failure statuses is the envelope
\* {success: false, error: <the status>, message}
IsEnvelope(r) ==
    r.status \in {400, 401, 403, 404, 405, 422} =>
        /\ DOMAIN r.body = {"success", "error", "message"}
        /\ r.body.success = FALSE
        /\ r.body.error = r.status

\* C18: every response with status 400, 401, 403, 404, 405 or 422 is the
\* JSON envelope with success false and error equal to the status.
C18_FailureEnvelope ==
    /\ \A route \in Routes, k \in Tokens :
          \A r \in RouteReplies(route, k) : IsEnvelope(r)
    /\ \A request \in Unrouted :
          LET r == no_route(Store, request)
          IN r.status \in {404, 405} /\ IsEnvelope(r)

\* a request with a method its path does not accept has been answered 405
\* while rows are stored
C18_Witness ==
    /\ resp.route = "PUT /issues"
    /\ resp.status = 405
    /\ issues # {}

\* every request on /issues/:id that carries its permission answers 404
IssueGone(s, id) ==
    /\ \A k \in Tokens :
          MayCall("GET /issues/:id", k) => get_issue(s, k, id).status = 404
    /\ \A k \in Tokens, b \in IssuePatches, q \in PatchTimes(s) :
          MayCall("PATCH /issues/:id", k) =>
              patch_issues(s, k, id, b, q.t1, q.t2).status = 404
    /\ \A k \in Tokens :
          MayCall("DELETE /issues/:id", k) => delete_issues(s, k, id).status = 404

\* C19: a successful DELETE /issues/:id answers 200 with success true and
\* delete equal to the id of the path; after it, and in every later state in
\* which no issue has that id, GET, PATCH and DELETE on the id answer 404.
C19_DeletedIssueIs404 ==
    /\ \A k \in Tokens, id \in IssueIdInputs :
          LET r == delete_issues(Store, k, id)
          IN r.status = 200 =>
                /\ r.body = [success |-> TRUE, delete |-> id]
                /\ id \notin Ids(r.store.issues)
                /\ IssueGone(r.store, id)
    /\ \A id \in IssueIdInputs :
          id < seq.issues /\ id \notin Ids(issues) => IssueGone(Store, id)

\* a DELETE /issues/:id has been answered 200 and no issue has its id
C19_Witness ==
    /\ resp.route = "DELETE /issues/:id"
    /\ resp.status = 200
    /\ resp.id < seq.issues
    /\ resp.id \notin Ids(issues)

\* C20: PATCH /users from the accepted host with a roles list, for the
\* external id of a stored user, answers 200, stores the roles, sets
\* last_login to the time of the request and leaves the other users and the
\* number of users as they were; for an external id no user has it answers
\* 404 and changes nothing.
C20_UpdateUserRoles ==
    \A k \in Tokens, b \in UserBodies, t \in Readings(Store) :
        (b.user = "{...}" /\ b.user_id \in AuthIds /\ b.roles \in RoleLists) =>
            LET r == update_user(Store, k, AcceptedHost, b, t)
            IN IF \E u \in users : u.auth_id = b.user_id
               THEN LET old == CHOOSE u \in users : u.auth_id = b.user_id
                        new == Row(r.store.users, old.id)
                    IN /\ r.status = 200 /\ r.body.success
                       /\ new.roles = b.roles
                       /\ new.last_login = t
                       /\ new.auth_id = old.auth_id
                       /\ Ids(r.store.users) = Ids(users)
                       /\ r.store.users \ {new} = users \ {old}
                       /\ r.store.issues = issues
                       /\ r.store.comments = comments
               ELSE /\ r.status = 404 /\ ~ r.body.success
                    /\ SameTables(r.store, Store)

\* a PATCH /users has been answered 200 at a later clock reading than the
\* users were created at, and two users are stored
C20_Witness ==
    /\ resp.route = "PATCH /users"
    /\ resp.status = 200
    /\ Cardinality(users) = 2
    /\ \E u \in users : u.last_login = now /\ now > 1
    /\ \E u \in users : u.last_login < now

\* C21: POST /comments with the post:comments permission and no empty field,
\* whose user_id is the id of no stored user or whose issue_id is the id of
\* no stored issue, answers 422 and leaves the comments as they are.
C21_DanglingCommentRejected ==
    \A k \in Tokens, b \in CommentBodies, t \in Readings(Store) :
        (/\ MayCall("POST /comments", k)
         /\ b.text = Absent \/ ~ Falsy(b.text)
         /\ b.user_id # EmptyId /\ b.issue_id # EmptyId
         /\ \/ b.user_id \in UserIdInputs \ Ids(users)
            \/ b.issue_id \in IssueIdInputs \ Ids(issues))
        => LET r == post_comment(Store, k, b, t)
           IN /\ r.status = 422 /\ ~ r.body.success
              /\ r.store.comments = comments

\* a POST /comments has been answered 422 and has used up an id, while a
\* user and an issue are stored and a request that names them and an issue
\* that is not stored is refused
C21_Witness ==
    /\ resp.route = "POST /comments"
    /\ resp.status = 422
    /\ seq.comments > 1
    /\ comments = {}
    /\ users # {} /\ issues # {}
    /\ \E b \in CommentBodies :
          /\ b.text = "c"
          /\ b.user_id \in Ids(users)
          /\ b.issue_id \in IssueIdInputs \ Ids(issues)
          /\ post_comment(Store, resp.token, b, now).status = 422

\* the keys of the short form of an issue
ShortFormKeys ==
    {"id", "title", "open", "text", "created_at", "closed_at",
     "last_modified", "user"}

\* C23: GET /issues answers 200 with success true and one entry per stored
\* issue, in ascending id order, each the short form of its issue without
\* a comments key, and leaves every table as it is.
C23_GetIssuesListsAll ==
    \A k \in Tokens :
        LET r == get_issues(Store, k)
            list == r.body.issues
        IN /\ r.status = 200 /\ r.body.success
           /\ Len(list) = Cardinality(issues)
           /\ {list[n].id : n \in DOMAIN list} = Ids(issues)
           /\ \A m, n \in DOMAIN list : m < n => list[m].id < list[n].id
           /\ \A n \in DOMAIN list :
                 /\ DOMAIN list[n] = ShortFormKeys
                 /\ list[n] = format_no_comments(Store, Row(issues, list[n].id))
           /\ SameTables(r.store, Store)

\* GET /issues has been answered 200 while two issues and a comment are
\* stored
C23_Witness ==
    /\ resp.route = "GET /issues"
    /\ resp.status = 200
    /\ Cardinality(issues) = 2
    /\ Len(get_issues(Store, resp.token).body.issues) = 2

\* C24: a successful POST /issues adds exactly one issue, with the title and
\* the text of the request, open and with no closed_at, answers its short
\* form, and leaves the other issues, the comments and the users as they are.
C24_PostIssueAddsOne ==
    \A k \in Tokens, b \in IssueBodies, t \in Readings(Store) :
        LET r == post_issue(Store, k, b, t)
        IN Success(r.status) =>
              /\ issues \subseteq r.store.issues
              /\ Cardinality(r.store.issues \ issues) = 1
              /\ \A n \in r.store.issues \ issues :
                    /\ n.id \notin Ids(issues)
                    /\ n.title = b.title /\ n.text = b.text
                    /\ n.open /\ n.closed_at = NullTime
                    /\ r.body.issue = format_no_comments(r.store, n)
                    /\ DOMAIN r.body.issue = ShortFormKeys
              /\ r.store.comments = comments
              /\ r.store.users = users

\* a POST /issues has been answered 200 beside an issue stored before, and
\* the issue it created is stored open with no closed_at
C24_Witness ==
    /\ resp.route = "POST /issues"
    /\ resp.status = 200
    /\ Cardinality(issues) = 2
    /\ \E i \in issues :
          i.id = seq.issues - 1 /\ i.open /\ i.closed_at = NullTime

\* C27: every stored issue whose open flag is false has a closed_at that is
\* not null.
C27_ClosedIssuesHaveClosedAt ==
    \A i \in issues : ~ i.open => i.closed_at # NullTime

\* a closed issue is stored beside an open one that was never closed
C27_Witness ==
    \E i, j \in issues :
        /\ ~ i.open /\ i.closed_at # NullTime
        /\ j.open /\ j.closed_at = NullTime

\* C28: a successful PATCH /issues/:id keeps the issue's id, created_at and
\* user_id, changes title, text and open only when the body has the key,
\* stamps last_modified with the time of the request, and leaves the other
\* issues, the comments and the users as they are.
C28_PatchIssueChangesOnlyGivenKeys ==
    \A k \in Tokens, id \in IssueIdInputs, b \in IssuePatches,
       q \in PatchTimes(Store) :
        LET r == patch_issues(Store, k, id, b, q.t1, q.t2)
            old == Row(issues, id)
            new == Row(r.store.issues, id)
        IN Success(r.status) =>
              /\ id \in Ids(issues)
              /\ Ids(r.store.issues) = Ids(issues)
              /\ new.created_at = old.created_at
              /\ new.user_id = old.user_id
              /\ new.title = IF b.title = Absent THEN old.title ELSE b.title
              /\ new.text = IF b.text = Absent THEN old.text ELSE b.text
              /\ new.open = IF b.open = Absent THEN old.open ELSE b.open = JTrue
              /\ new.last_modified = q.t2
              /\ r.store.issues \ {new} = issues \ {old}
              /\ r.store.comments = comments
              /\ r.store.users = users

\* a PATCH /issues/:id has succeeded on one of two stored issues and stamped
\* it, while the other issue was never modified
C28_Witness ==
    /\ resp.route = "PATCH /issues/:id"
    /\ resp.status = 200
    /\ \E i, j \in issues :
          /\ i.id = resp.id /\ i.last_modified = now
          /\ j.id # resp.id /\ j.last_modified = NullTime

\* C29: a successful PATCH /comments/:id keeps the comment's id, created_at,
\* issue_id and user_id, whatever issue_id and user_id the body carries,
\* changes the text only when the body has the key, stamps last_modified,
\* and leaves the other comments, the issues and the users as they are.
C29_PatchCommentKeepsOwners ==
    \A k \in Tokens, id \in CommentIdInputs, b \in CommentPatches,
       t \in Readings(Store) :
        LET r == patch_comments(Store, k, id, b, t)
            old == Row(comments, id)
            new == Row(r.store.comments, id)
        IN Success(r.status) =>
              /\ id \in Ids(comments)
              /\ Ids(r.store.comments) = Ids(comments)
              /\ new.issue_id = old.issue_id
              /\ new.user_id = old.user_id
              /\ new.created_at = old.created_at
              /\ new.text = IF b.text = Absent THEN old.text ELSE b.text
              /\ new.last_modified = t
              /\ r.store.comments \ {new} = comments \ {old}
              /\ r.store.issues = issues
              /\ r.store.users = users

\* a PATCH /comments/:id has succeeded on a comment of issue 1 by user 1,
\* and the same request with a body that names issue 2 and user 2 succeeds
\* too
C29_Witness ==
    /\ resp.route = "PATCH /comments/:id"
    /\ resp.status = 200
    /\ \E c \in comments :
          /\ c.id = resp.id /\ c.last_modified = now
          /\ c.issue_id = 1 /\ c.user_id = 1
    /\ patch_comments(Store, resp.token, resp.id,
                      CommentPatch(Absent, 2, 2), now).status = 200

\* a reply with status 422 carries the tables of the current state
Unchanged422(r) == r.status = 422 => SameTables(r.store, Store)

\* C22: a request to a writing route that is answered 422 leaves the users, the issues and the comments
\* as they were; a PATCH /issues/:id that sets the title to the title of
\* another stored issue is answered 422, the row of its issue is what it was,
\* and GET /issues/:id and GET /issues answer afterwards what they answered
\* before.
C22_FailedWriteChangesNothing ==
    /\ \A k \in Tokens :
          /\ \A h \in Hosts, b \in UserBodies :
                Unchanged422(add_user(Store, k, h, b))
          /\ \A h \in Hosts, b \in UserBodies, t \in Readings(Store) :
                Unchanged422(update_user(Store, k, h, b, t))
          /\ \A b \in IssueBodies, t \in Readings(Store) :
                Unchanged422(post_issue(Store, k, b, t))
          /\ \A b \in CommentBodies, t \in Readings(Store) :
                Unchanged422(post_comment(Store, k, b, t))
          /\ \A i \in IssueIdInputs, b \in IssuePatches, q \in PatchTimes(Store) :
                Unchanged422(patch_issues(Store, k, i, b, q.t1, q.t2))
          /\ \A i \in CommentIdInputs, b \in CommentPatches, t \in Readings(Store) :
                Unchanged422(patch_comments(Store, k, i, b, t))
          /\ \A i \in IssueIdInputs : Unchanged422(delete_issues(Store, k, i))
          /\ \A i \in CommentIdInputs : Unchanged422(delete_comments(Store, k, i))
    /\ \A k \in Tokens, id \in Ids(issues), b \in IssuePatches,
          q \in PatchTimes(Store) :
          (/\ MayCall("PATCH /issues/:id", k)
           /\ \E j \in issues : j.id # id /\ j.title = b.title)
          => LET r == patch_issues(Store, k, id, b, q.t1, q.t2)
             IN /\ r.status = 422
                /\ Row(r.store.issues, id) = Row(issues, id)
                /\ get_issue(r.store, k, id).body = get_issue(Store, k, id).body
                /\ get_issues(r.store, k).body = get_issues(Store, k).body

\* a PATCH /issues/:id has been answered 422 while another issue is stored,
\* its issue was never modified, and the patch that gives it the other
\* issue's title and closes it is refused
C22_Witness ==
    /\ resp.route = "PATCH /issues/:id"
    /\ resp.status = 422
    /\ \E i, j \in issues :
          /\ i.id = resp.id /\ j.id # i.id
          /\ i.open /\ i.last_modified = NullTime /\ i.closed_at = NullTime
          /\ patch_issues(Store, resp.token, i.id,
                          IssuePatch(j.title, "y", JFalse), now, now).status = 422

\* C25: on a permission-gated route a caller who lacks the route's permission
\* is answered 401 or 403 for every id and every body, never 400, 404 or
\* 422, and the status is the same whatever the id and the body are.
C25_AuthorizationFirst ==
    \A route \in GatedRoutes, k \in Tokens :
        ~ MayCall(route, k) =>
            LET answers == {r.status : r \in RouteReplies(route, k)}
            IN /\ answers \subseteq {401, 403}
               /\ answers \cap {400, 404, 422} = {}
               /\ Cardinality(answers) = 1

\* a PATCH /issues/:id without a token, for an id that is not stored, has
\* been answered 401, where the same request is answered 404 to the admin
\* and 400 to the admin when the issue is stored and the body is empty
C25_Witness ==
    /\ resp.route = "PATCH /issues/:id"
    /\ resp.token = NoToken
    /\ resp.status = 401
    /\ resp.id \notin Ids(issues)
    /\ issues # {}
    /\ patch_issues(Store, "admin", resp.id,
                    IssuePatch(Absent, Absent, Absent), now, now).status = 404
    /\ \A i \in Ids(issues) :
          /\ patch_issues(Store, "admin", i,
                          IssuePatch(Absent, Absent, Absent), now, now).status = 400
          /\ patch_issues(Store, NoToken, i,
                          IssuePatch(Absent, Absent, Absent), now, now).status = 401

\* C26: when POST /users requests are served concurrently, their lookups and
\* inserts interleaved, no two stored users have the same external id.
C26_OneUserPerExternalId ==
    \A u, v \in users : u.auth_id = v.auth_id => u.id = v.id

\* two requests with the same external id have both passed the lookup and
\* wait for their inserts
C26_Witness ==
    \E p, q \in inflight :
        /\ p.client # q.client
        /\ p.body.user_id = q.body.user_id
        /\ \A u \in users : u.auth_id # p.body.user_id

====
